---- MODULE Spec2Model ----
(***************************************************************************)
(* Model of the asynchronous try-on image-generation workflow of the       *)
(* ponpa backend: the session store (models/tryon_session.py), the         *)
(* background pipeline and the status/list/delete endpoints                *)
(* (api/endpoints/tryon.py) and the AI gateway with its rate limiter       *)
(* (services/ai_service.py).                                               *)
(*                                                                         *)
(* Firestore, the blob store, the wardrobe catalog and the generative-AI   *)
(* provider are external collaborators: every awaited call on them either  *)
(* succeeds or fails, chosen nondeterministically.  Every await is a       *)
(* scheduling point, so each pipeline step between two awaits is one       *)
(* action.                                                                 *)
(***************************************************************************)
EXTENDS Integers, Sequences, FiniteSets, TLC

\* ------------------------------------------------------------------ bounds
MaxSessions == 1      \* number of sessions ever created
MaxItems == 1         \* clothing items an outfit can resolve to

MaxCallers == 2       \* concurrent callers of the AI gateway
MaxCalls == 3         \* gateway calls started in one behaviour
MaxTime == 60         \* the clock stops here
TickStep == 30        \* resolution of the clock, in seconds
RPM == 2              \* settings.google_ai_rate_limit_requests_per_minute
TPM == 200            \* settings.google_ai_rate_limit_tokens_per_minute

MaxDocs == 2          \* documents of a store whose operations are called directly
MaxItemDocs == 2      \* clothing item documents of the wardrobe
MaxListed == 2        \* clothing items an outfit request lists
MaxOutfits == 1       \* outfits ever created
MaxDays == 1          \* age of the oldest stored session, and largest days_old

Users == {"u1", "u2"}
Callers == 1..MaxCallers
SessionIds == 1..MaxSessions
StoreIds == 1..MaxDocs
ItemIds == 1..MaxItemDocs
NULL == "null"        \* Python None, for a string
NoInt == -1           \* Python None, for a number or a timestamp

\* TryOnStatus enum values
PENDING == "pending"
IN_PROGRESS == "in_progress"
COMPLETED == "completed"
FAILED == "failed"
CANCELLED == "cancelled"
TerminalStatuses == {COMPLETED, FAILED, CANCELLED}

NoDoc == [absent |-> TRUE]   \* doc.exists is False

\* Python truthiness of an Optional[str] argument
Truthy(v) == v # NULL /\ v # ""

\* dict.update / Firestore partial update: keys of upd override keys of d
Merge(d, upd) ==
  [k \in (DOMAIN d) \cup (DOMAIN upd) |-> IF k \in DOMAIN upd THEN upd[k] ELSE d[k]]

\* a dict with the single key k
Single(k, v) == [x \in {k} |-> v]
EmptyDict == [x \in {} |-> NULL]

VARIABLES
  sessions,      \* Firestore collection tryon_sessions: session_id -> document
  nextId,        \* next unused session id (uuid4 is fresh on every creation)
  pc,            \* position of the background task of each session
  local,         \* local variables of the background task of each session
  ai_client,     \* AIService.client is not None
  lastPolled,    \* the polling client: the session it follows and its last view
  delivered,     \* the update_session_status call a direct caller made last
  returned,      \* the session store operation a direct caller made last, and its result
  now,           \* the clock (datetime.now / datetime.utcnow), in seconds
  request_timestamps,  \* RateLimiter.request_timestamps
  token_usage,         \* RateLimiter.token_usage: <<timestamp, tokens>> pairs
  gw,            \* the gateway call each caller is in, and its attempt
  usage_history, \* AIService.usage_history: the success flags of the entries
                 \* each caller's current call appended, in order
  calls,         \* number of gateway calls started so far
  transport_log, \* times of the latest transport calls issued to the provider
  users,         \* Firestore collection users: uid -> document
  profiles,      \* Firestore collection profiles: user_uid -> document
  items,         \* Firestore collection clothing_items: item id -> document
  outfits        \* Firestore collection outfits, in order of creation

sessionVars == <<sessions, nextId, pc, local, lastPolled, delivered, returned>>
rlVars == <<request_timestamps, token_usage, gw, usage_history, calls, transport_log>>
catalogVars == <<users, profiles, items, outfits>>

\* ------------------------------------------------------- session documents
\* a session document that is created as already running
NewSession_in_progress(user_uid, t) ==
  [ user_uid |-> user_uid,
    status |-> IN_PROGRESS,
    progress_percentage |-> 0,
    generated_image_url |-> NULL,
    ai_description |-> NULL,
    created_at |-> t,
    started_at |-> t,
    completed_at |-> NoInt,
    error_message |-> NULL,
    ai_model_used |-> NULL,
    generation_time_seconds |-> NoInt ]

\* TryOnSession(user_uid=..., status=PENDING).dict()
NewSession(user_uid, t) ==
  [ user_uid |-> user_uid,
    status |-> PENDING,
    progress_percentage |-> 0,
    generated_image_url |-> NULL,
    ai_description |-> NULL,
    created_at |-> t,
    started_at |-> NoInt,
    completed_at |-> NoInt,
    error_message |-> NULL,
    ai_model_used |-> NULL,
    generation_time_seconds |-> NoInt ]

\* get_session with the ownership filter left out
get_session_no_owner_check(user_uid, session_id, fault) ==
  IF fault THEN NoDoc
  ELSE IF sessions[session_id] = NoDoc THEN NoDoc
  ELSE sessions[session_id]

\* TryOnSessionService.get_session: the document, or None (NoDoc) when the
\* read fails, the document does not exist or its owner is another user
get_session(user_uid, session_id, fault) ==
  IF fault THEN NoDoc
  ELSE IF sessions[session_id] = NoDoc THEN NoDoc
  ELSE IF sessions[session_id].user_uid # user_uid THEN NoDoc
  ELSE sessions[session_id]

\* update_data that always writes progress_percentage (0 when not given)
update_data_progress_default(status, progress, error_message, generated_image_url, ai_description, generation_metadata, t) ==
  LET d0 == [status |-> status, updated_at |-> t]
      d1 == Merge(d0, Single("progress_percentage", IF progress # NoInt THEN progress ELSE 0))
      d2 == IF Truthy(error_message) THEN Merge(d1, Single("error_message", error_message)) ELSE d1
      d3 == IF Truthy(generated_image_url)
              THEN Merge(d2, [generated_image_url |-> generated_image_url, completed_at |-> t])
              ELSE d2
      d4 == IF Truthy(ai_description) THEN Merge(d3, Single("ai_description", ai_description)) ELSE d3
      d5 == IF generation_metadata # EmptyDict THEN Merge(d4, generation_metadata) ELSE d4
  IN IF status = IN_PROGRESS /\ "started_at" \notin DOMAIN d5
       THEN Merge(d5, Single("started_at", t)) ELSE d5

\* update_data that never writes error_message
update_data_drop_error(status, progress, error_message, generated_image_url, ai_description, generation_metadata, t) ==
  LET d0 == [status |-> status, updated_at |-> t]
      d1 == IF progress # NoInt THEN Merge(d0, Single("progress_percentage", progress)) ELSE d0
      d3 == IF Truthy(generated_image_url)
              THEN Merge(d1, [generated_image_url |-> generated_image_url, completed_at |-> t])
              ELSE d1
      d4 == IF Truthy(ai_description) THEN Merge(d3, Single("ai_description", ai_description)) ELSE d3
      d5 == IF generation_metadata # EmptyDict THEN Merge(d4, generation_metadata) ELSE d4
  IN IF status = IN_PROGRESS /\ "started_at" \notin DOMAIN d5
       THEN Merge(d5, Single("started_at", t)) ELSE d5

\* the partial-update dictionary built by update_session_status
update_data(status, progress, error_message, generated_image_url, ai_description, generation_metadata, t) ==
  LET d0 == [status |-> status, updated_at |-> t]
      d1 == IF progress # NoInt THEN Merge(d0, Single("progress_percentage", progress)) ELSE d0
      d2 == IF Truthy(error_message) THEN Merge(d1, Single("error_message", error_message)) ELSE d1
      d3 == IF Truthy(generated_image_url)
              THEN Merge(d2, [generated_image_url |-> generated_image_url, completed_at |-> t])
              ELSE d2
      d4 == IF Truthy(ai_description) THEN Merge(d3, Single("ai_description", ai_description)) ELSE d3
      d5 == IF generation_metadata # EmptyDict THEN Merge(d4, generation_metadata) ELSE d4
  IN IF status = IN_PROGRESS /\ "started_at" \notin DOMAIN d5
       THEN Merge(d5, Single("started_at", t)) ELSE d5

\* update_session_status that writes with set(merge=True): a missing
\* document is created
update_outcome_upsert(session_id, fault) ==
  IF fault THEN "false" ELSE "true"

\* update_session_status that lets a store error escape
update_outcome_propagate(session_id, fault) ==
  IF fault \/ sessions[session_id] = NoDoc THEN "raise" ELSE "true"

\* What a call of update_session_status does: "true" when doc_ref.update
\* was applied; "false" when the write raised (a transient store error, or
\* NotFound for a document that no longer exists), because the error is
\* caught and logged.  It never yields "raise".
update_outcome(session_id, fault) ==
  IF fault \/ sessions[session_id] = NoDoc THEN "false" ELSE "true"

\* a failed update_session_status call that has written the status all the same
StoreAfterUpdate_status_on_failure(session_id, o, upd) ==
  IF o = "true"
    THEN [sessions EXCEPT ![session_id] = Merge(sessions[session_id], upd)]
  ELSE IF sessions[session_id] # NoDoc
    THEN [sessions EXCEPT ![session_id].status = upd.status]
  ELSE sessions

\* the collection after update_session_status(session_id, ...) with outcome o
StoreAfterUpdate(session_id, o, upd) ==
  IF o = "true"
    THEN [sessions EXCEPT ![session_id] = Merge(sessions[session_id], upd)]
    ELSE sessions


\* ------------------------------------------------- background task locals
\* error texts
GatewayError == "RetryError"             \* str(e) of a failed gateway call
StoreError == "store error"              \* str(e) of a failed store write
ItemError == "item load error"
DescriptionError == "description error"
FallbackDescription == "Virtual try-on image generated successfully."
ModelName == "gemini-2.5-flash-image-preview"

InitLocal ==
  [ user_uid |-> NULL,             \* argument user_uid
    clothing_items |-> NoInt,      \* len(clothing_items), once loaded
    generated_image_data |-> NULL,
    image_url |-> NULL,
    description |-> NULL,
    generation_time |-> NoInt,
    error_message |-> NULL,        \* argument of the pending FAILED update
    handler |-> NULL,              \* where the pending FAILED update stands
    raised |-> NULL,               \* the last exception raised in the task
    external_calls |-> << >> ]     \* AI gateway and blob store calls made, in order

\* a caller that is in no gateway call
IdleCall ==
  [ pc |-> "idle",
    attempt |-> 0,          \* attempt number of the tenacity wrapper
    kind |-> NULL,          \* "text" or "image"
    prompt_tokens |-> 0,    \* len(prompt.split())
    transports |-> 0,       \* transport calls the call has issued
    error |-> NULL ]        \* str(e) of the exception that ended the last attempt

\* a polling client that has not received a status yet
NoPoll == [session_id |-> 0, status |-> NULL, progress_percentage |-> NoInt]

\* no user, profile, clothing item or outfit is stored
CatalogEmpty ==
  /\ users = [uid \in Users |-> NoDoc]
  /\ profiles = [uid \in Users |-> NoDoc]
  /\ items = [item_id \in ItemIds |-> NoDoc]
  /\ outfits = << >>

\* no session store operation was called directly yet
NoReturn == [op |-> NULL]

\* no update_session_status call was made directly yet
NoDelivery == [session_id |-> 0, call |-> 0, t |-> NoInt, times |-> 0]

\* ---------------------------------------------------------------- Init
Init ==
  /\ sessions = [s \in SessionIds |-> NoDoc]
  /\ nextId = 1
  /\ pc = [s \in SessionIds |-> "idle"]
  /\ local = [s \in SessionIds |-> InitLocal]
  /\ ai_client \in BOOLEAN
  /\ lastPolled = NoPoll
  /\ delivered = NoDelivery
  /\ returned = NoReturn
  /\ now = 0
  /\ request_timestamps = << >>
  /\ token_usage = << >>
  /\ gw = [c \in Callers |-> IdleCall]
  /\ usage_history = [c \in Callers |-> << >>]
  /\ calls = 0
  /\ transport_log = << >>
  /\ CatalogEmpty

\* ------------------------------------------------------ pipeline helpers
\* The task of session s issues update_session_status(s, upd...) from code
\* that stands in try-context ctx, and goes to pc value next when the call
\* returns.  ctx is "outer" inside the outer try only, "inner" inside the
\* inner try, "inner_handler" inside the inner except clause and
\* "outer_handler" inside the outer except clause.  An exception leaving the
\* call is routed as Python routes it.
IssueUpdate(s, ctx, status, progress, error_message, url, description, metadata, next, loc) ==
  \E fault \in BOOLEAN :
    LET o == update_outcome(s, fault)
        upd == update_data(status, progress, error_message, url, description, metadata, now)
        caught == [loc EXCEPT !.raised = StoreError]
    IN /\ sessions' = StoreAfterUpdate(s, o, upd)
       /\ IF o # "raise"
            THEN /\ pc' = [pc EXCEPT ![s] = next]
                 /\ local' = [local EXCEPT ![s] = IF next = "done" THEN InitLocal ELSE loc]
            ELSE IF ctx \in {"inner"}
              THEN /\ pc' = [pc EXCEPT ![s] = "fail"]
                   /\ local' = [local EXCEPT ![s] =
                        [caught EXCEPT !.handler = "inner_handler",
                                       !.error_message = "Image generation failed: " \o StoreError]]
            ELSE IF ctx \in {"outer", "inner_handler"}
              THEN /\ pc' = [pc EXCEPT ![s] = "fail"]
                   /\ local' = [local EXCEPT ![s] =
                        [caught EXCEPT !.handler = "outer_handler",
                                       !.error_message = "Task failed: " \o StoreError]]
            ELSE /\ pc' = [pc EXCEPT ![s] = "raised"]
                 /\ local' = [local EXCEPT ![s] = InitLocal]

\* the task goes on to issue update_session_status(FAILED, error_message=msg)
GoFail(s, ctx, msg, loc) ==
  /\ pc' = [pc EXCEPT ![s] = "fail"]
  /\ local' = [local EXCEPT ![s] = [loc EXCEPT !.handler = ctx, !.error_message = msg]]

taskFrame == <<nextId, ai_client, lastPolled, now, delivered, returned, rlVars, catalogVars>>


\* ------------------------------------------------------ pipeline actions
\* progress values with the 30 and 50 updates written in the wrong order
StepProgress_swapped(step) ==
  CASE step = "update10" -> 10
    [] step = "update30" -> 50
    [] step = "update50" -> 30
    [] step = "update80" -> 80
    [] step = "complete" -> 100

\* progress values with 100 written already by the update after generation
StepProgress_early_100(step) ==
  CASE step = "update10" -> 10
    [] step = "update30" -> 30
    [] step = "update50" -> 50
    [] step = "update80" -> 100
    [] step = "complete" -> 100

\* the progress value each update of the pipeline writes
StepProgress(step) ==
  CASE step = "update10" -> 10
    [] step = "update30" -> 30
    [] step = "update50" -> 50
    [] step = "update80" -> 80
    [] step = "complete" -> 100

\* status IN_PROGRESS, progress 10
TaskStart(s) ==
  /\ pc[s] = "update10"
  /\ IssueUpdate(s, "outer", IN_PROGRESS, StepProgress("update10"), NULL, NULL, NULL,
                 EmptyDict, "get_session", local[s])
  /\ UNCHANGED taskFrame

\* session = get_session(user_uid, session_id); FAILED "Session not found"
TaskGetSession(s) ==
  /\ pc[s] = "get_session"
  /\ \E fault \in BOOLEAN :
       IF get_session(local[s].user_uid, s, fault) = NoDoc
         THEN GoFail(s, "outer", "Session not found", local[s])
         ELSE /\ pc' = [pc EXCEPT ![s] = "get_outfit"]
              /\ local' = local
  /\ UNCHANGED <<sessions, taskFrame>>

\* outfit = OutfitService.get_outfit(...); FAILED "Outfit not found"
TaskGetOutfit(s) ==
  /\ pc[s] = "get_outfit"
  /\ \E found \in BOOLEAN :
       IF ~found
         THEN GoFail(s, "outer", "Outfit not found", local[s])
         ELSE /\ pc' = [pc EXCEPT ![s] = "load_items"]
              /\ local' = local
  /\ UNCHANGED <<sessions, taskFrame>>

\* the loop over outfit.clothing_item_ids: n items resolve; an exception of
\* get_clothing_item is logged and the item skipped
TaskLoadItems(s) ==
  /\ pc[s] = "load_items"
  /\ \E n \in 0..MaxItems, item_raised \in BOOLEAN :
       /\ n + (IF item_raised THEN 1 ELSE 0) <= MaxItems
       /\ LET loc == [local[s] EXCEPT
                        !.clothing_items = n,
                        !.raised = IF item_raised THEN ItemError ELSE @]
          IN IF n = 0
               THEN GoFail(s, "outer", "No clothing items found", loc)
               ELSE /\ pc' = [pc EXCEPT ![s] = "update30"]
                    /\ local' = [local EXCEPT ![s] = loc]
  /\ UNCHANGED <<sessions, taskFrame>>

\* progress 30, then get_ai_service().is_available()
TaskUpdate30(s) ==
  /\ pc[s] = "update30"
  /\ IF ai_client
       THEN IssueUpdate(s, "outer", IN_PROGRESS, StepProgress("update30"), NULL, NULL, NULL,
                        EmptyDict, "update50", local[s])
       ELSE IssueUpdate(s, "outer", IN_PROGRESS, StepProgress("update30"), NULL, NULL, NULL,
                        EmptyDict, "fail",
                        [local[s] EXCEPT !.handler = "outer",
                                         !.error_message = "AI service not available"])
  /\ UNCHANGED taskFrame

\* progress 50
TaskUpdate50(s) ==
  /\ pc[s] = "update50"
  /\ IssueUpdate(s, "outer", IN_PROGRESS, StepProgress("update50"), NULL, NULL, NULL,
                 EmptyDict, "generate", local[s])
  /\ UNCHANGED taskFrame

\* generated_image_data = ai_service.generate_try_on_image(...): image bytes,
\* or an exception that the inner except clause turns into a FAILED update
TaskGenerateImage(s) ==
  /\ pc[s] = "generate"
  /\ \E ok \in BOOLEAN :
       IF ok
         THEN /\ pc' = [pc EXCEPT ![s] = "update80"]
              /\ local' = [local EXCEPT ![s].generated_image_data = "img",
                                        ![s].generation_time = 0,
                                        ![s].external_calls = Append(@, "generate")]
         ELSE GoFail(s, "inner_handler", "Image generation failed: " \o GatewayError,
                     [local[s] EXCEPT !.raised = GatewayError,
                                      !.external_calls = Append(@, "generate")])
  /\ UNCHANGED <<sessions, taskFrame>>

\* progress 80
TaskUpdate80(s) ==
  /\ pc[s] = "update80"
  /\ IssueUpdate(s, "inner", IN_PROGRESS, StepProgress("update80"), NULL, NULL, NULL,
                 EmptyDict, "save_image", local[s])
  /\ UNCHANGED taskFrame

\* the pipeline with the check of the upload's result inverted
AfterSave_inverted(image_url) == IF Truthy(image_url) THEN "fail" ELSE "describe"

\* the pipeline without the check of the upload's result
AfterSave_unchecked(image_url) == "describe"

\* if not image_url: FAILED "Failed to save generated image", return
AfterSave(image_url) == IF ~Truthy(image_url) THEN "fail" ELSE "describe"

\* image_url = save_generated_image_to_storage(...): the public URL, or None
\* when the bucket is missing or the upload raised
TaskSaveImage(s) ==
  /\ pc[s] = "save_image"
  /\ \E image_url \in {"url", NULL} :
       IF AfterSave(image_url) = "fail"
         THEN GoFail(s, "inner", "Failed to save generated image",
                     [local[s] EXCEPT !.image_url = image_url,
                                      !.external_calls = Append(@, "upload")])
         ELSE /\ pc' = [pc EXCEPT ![s] = AfterSave(image_url)]
              /\ local' = [local EXCEPT ![s].image_url = image_url,
                                        ![s].external_calls = Append(@, "upload")]
  /\ UNCHANGED <<sessions, taskFrame>>

\* description = ai_service.generate_try_on_description(...), or the generic
\* sentence when that call raised
TaskDescribe(s) ==
  /\ pc[s] = "describe"
  /\ \E ok \in BOOLEAN :
       local' = [local EXCEPT ![s] =
                   IF ok THEN [@ EXCEPT !.description = "description",
                                        !.external_calls = Append(@, "describe")]
                         ELSE [@ EXCEPT !.description = FallbackDescription,
                                        !.raised = DescriptionError,
                                        !.external_calls = Append(@, "describe")]]
  /\ pc' = [pc EXCEPT ![s] = "complete"]
  /\ UNCHANGED <<sessions, taskFrame>>

\* status COMPLETED, progress 100, url, description and telemetry
TaskComplete(s) ==
  /\ pc[s] = "complete"
  /\ IssueUpdate(s, "inner", COMPLETED, StepProgress("complete"), NULL,
                 local[s].image_url, local[s].description,
                 [ai_model_used |-> ModelName,
                  generation_time_seconds |-> local[s].generation_time,
                  completed_at |-> now],
                 "done", local[s])
  /\ UNCHANGED taskFrame

\* a pipeline that goes on after the "No clothing items found" update
AfterFailedUpdate_no_return(error_message) ==
  IF error_message = "No clothing items found" THEN "update30" ELSE "done"

\* every FAILED update is followed by return, or ends the except clause
AfterFailedUpdate(error_message) == "done"

\* status FAILED with the error message, no progress
TaskFail(s) ==
  /\ pc[s] = "fail"
  /\ IssueUpdate(s, local[s].handler, FAILED, NoInt, local[s].error_message, NULL, NULL,
                 EmptyDict, AfterFailedUpdate(local[s].error_message), local[s])
  /\ UNCHANGED taskFrame


\* ------------------------------------------------------------ endpoints
NoBody == [status |-> NULL, progress_percentage |-> NoInt]
Response(code, detail, body) == [code |-> code, detail |-> detail, body |-> body]

\* the response of POST /generate-try-on-image: 404 when the caller has no
\* such outfit, 500 when create_session raises, else the new session's id
\* and status
start_try_on_image_generation(u, outfit_found, fault) ==
  IF ~outfit_found
    THEN [code |-> 404, detail |-> "Outfit not found", session_id |-> 0, status |-> NULL]
  ELSE IF fault
    THEN [code |-> 500, detail |-> "Failed to start try-on generation: " \o StoreError,
          session_id |-> 0, status |-> NULL]
  ELSE [code |-> 200, detail |-> NULL, session_id |-> nextId,
        status |-> NewSession(u, now).status]

\* POST /generate-try-on-image: on success the session is stored as PENDING
\* and the background task is scheduled
StartGeneration(u) ==
  /\ nextId <= MaxSessions
  /\ \E outfit_found \in BOOLEAN, fault \in BOOLEAN :
       IF start_try_on_image_generation(u, outfit_found, fault).code = 200
         THEN /\ sessions' = [sessions EXCEPT ![nextId] = NewSession(u, now)]
              /\ pc' = [pc EXCEPT ![nextId] = "update10"]
              /\ local' = [local EXCEPT ![nextId].user_uid = u]
              /\ nextId' = nextId + 1
         ELSE UNCHANGED <<sessions, nextId, pc, local>>
  /\ UNCHANGED <<ai_client, lastPolled, now, delivered, returned, rlVars, catalogVars>>

\* an estimate that is not computed from the progress
estimated_completion_time_flat(session) ==
  IF session.status \in {PENDING, IN_PROGRESS} THEN 60 ELSE NoInt

\* estimated_completion_time of get_try_on_status: 60 for PENDING,
\* int((100 - progress_percentage) * 0.5) for IN_PROGRESS (int truncates
\* toward zero), else None
estimated_completion_time(session) ==
  IF session.status \in {PENDING, IN_PROGRESS}
    THEN IF session.status = PENDING
           THEN 60
           ELSE LET remaining_progress == 100 - session.progress_percentage
                IN IF remaining_progress >= 0
                     THEN remaining_progress \div 2
                     ELSE 0 - ((0 - remaining_progress) \div 2)
    ELSE NoInt

\* the response of GET /try-on-status/{session_id}
get_try_on_status(u, sid, fault) ==
  LET session == get_session(u, sid, fault)
  IN IF session = NoDoc
       THEN Response(404, "Session not found", NoBody)
       ELSE Response(200, NULL,
                     [status |-> session.status,
                      progress_percentage |-> session.progress_percentage,
                      estimated_completion_time |-> estimated_completion_time(session)])

\* what the polling client holds after response r to a poll of sid: it
\* follows the first session it gets a status for
Polled(sid, r) ==
  IF r.code = 200 /\ lastPolled.session_id \in {0, sid}
    THEN [session_id |-> sid, status |-> r.body.status,
          progress_percentage |-> r.body.progress_percentage]
    ELSE lastPolled

\* GET /try-on-status/{session_id}
GetStatus(u, sid) ==
  /\ lastPolled' \in {Polled(sid, get_try_on_status(u, sid, fault)) : fault \in BOOLEAN}
  /\ UNCHANGED <<sessions, nextId, pc, local, ai_client, now, delivered, returned, rlVars, catalogVars>>

\* get_user_sessions: the caller's documents ([] when the query fails)
get_user_sessions(u, fault) ==
  IF fault THEN {}
  ELSE {sid \in SessionIds : sessions[sid] # NoDoc /\ sessions[sid].user_uid = u}

\* GET /my-try-on-sessions: reads only
ListSessions(u) ==
  /\ \A fault \in BOOLEAN : get_user_sessions(u, fault) \subseteq SessionIds
  /\ UNCHANGED <<sessions, nextId, pc, local, ai_client, lastPolled, now, delivered, returned, rlVars, catalogVars>>

\* delete_session that deletes without verifying ownership
delete_session_unchecked(user_uid, session_id, read_fault, write_fault) ==
  IF write_fault THEN [result |-> FALSE, store |-> sessions]
  ELSE [result |-> TRUE, store |-> [sessions EXCEPT ![session_id] = NoDoc]]

\* delete_session that marks the session CANCELLED and keeps the document
delete_session_soft(user_uid, session_id, read_fault, write_fault) ==
  IF get_session(user_uid, session_id, read_fault) = NoDoc
    THEN [result |-> FALSE, store |-> sessions]
  ELSE IF write_fault THEN [result |-> FALSE, store |-> sessions]
  ELSE [result |-> TRUE, store |-> [sessions EXCEPT ![session_id].status = CANCELLED]]

\* delete_session that reports success although the delete raised
delete_session_write_error_ignored(user_uid, session_id, read_fault, write_fault) ==
  IF get_session(user_uid, session_id, read_fault) = NoDoc
    THEN [result |-> FALSE, store |-> sessions]
  ELSE IF write_fault THEN [result |-> TRUE, store |-> sessions]
  ELSE [result |-> TRUE, store |-> [sessions EXCEPT ![session_id] = NoDoc]]

\* TryOnSessionService.delete_session: ownership check through get_session,
\* then a hard delete; False when either fails
delete_session(user_uid, session_id, read_fault, write_fault) ==
  IF get_session(user_uid, session_id, read_fault) = NoDoc
    THEN [result |-> FALSE, store |-> sessions]
  ELSE IF write_fault THEN [result |-> FALSE, store |-> sessions]
  ELSE [result |-> TRUE, store |-> [sessions EXCEPT ![session_id] = NoDoc]]

\* the response of DELETE /try-on-session/{session_id}, and the store after it
delete_try_on_session(u, sid, read_fault, write_fault) ==
  LET d == delete_session(u, sid, read_fault, write_fault)
  IN [code |-> IF d.result THEN 200 ELSE 404,
      detail |-> IF d.result THEN "Session deleted successfully" ELSE "Session not found",
      store |-> d.store]

\* DELETE /try-on-session/{session_id}
DeleteSession(u, sid) ==
  /\ sessions' \in {delete_try_on_session(u, sid, read_fault, write_fault).store :
                     read_fault \in BOOLEAN, write_fault \in BOOLEAN}
  /\ UNCHANGED <<nextId, pc, local, ai_client, lastPolled, now, delivered, returned, rlVars, catalogVars>>

\* ------------------------------------- update_session_status, called directly
\* the telemetry the pipeline passes with its COMPLETED update, built at t
Telemetry(t) ==
  [ai_model_used |-> ModelName, generation_time_seconds |-> 0, completed_at |-> t]

\* The argument lists a caller passes to update_session_status: the calls the
\* pipeline makes (tryon.py) and a COMPLETED call without telemetry.  t is
\* the time the caller built its arguments.
UpdateCall(n, t) ==
  CASE n = 1 -> [status |-> IN_PROGRESS, progress |-> 10, error_message |-> NULL,
                 generated_image_url |-> NULL, ai_description |-> NULL,
                 generation_metadata |-> EmptyDict]
    [] n = 2 -> [status |-> IN_PROGRESS, progress |-> 30, error_message |-> NULL,
                 generated_image_url |-> NULL, ai_description |-> NULL,
                 generation_metadata |-> EmptyDict]
    [] n = 3 -> [status |-> FAILED, progress |-> NoInt,
                 error_message |-> "Failed to save generated image",
                 generated_image_url |-> NULL, ai_description |-> NULL,
                 generation_metadata |-> EmptyDict]
    [] n = 4 -> [status |-> COMPLETED, progress |-> 100, error_message |-> NULL,
                 generated_image_url |-> "url", ai_description |-> FallbackDescription,
                 generation_metadata |-> Telemetry(t)]
    [] n = 5 -> [status |-> COMPLETED, progress |-> 100, error_message |-> NULL,
                 generated_image_url |-> "url", ai_description |-> FallbackDescription,
                 generation_metadata |-> EmptyDict]
UpdateCalls == 1..5

\* the store after update_session_status(s, UpdateCall(n, t)) runs now
Applied(s, n, t, fault) ==
  LET a == UpdateCall(n, t)
  IN StoreAfterUpdate(s, update_outcome(s, fault),
                      update_data(a.status, a.progress, a.error_message,
                                  a.generated_image_url, a.ai_description,
                                  a.generation_metadata, now))

\* a caller applies an update to a stored session
Deliver(s, n) ==
  /\ sessions[s] # NoDoc
  /\ sessions' = Applied(s, n, now, FALSE)
  /\ delivered' = [session_id |-> s, call |-> n, t |-> now, times |-> 1]
  /\ UNCHANGED <<nextId, pc, local, ai_client, lastPolled, now, returned, rlVars, catalogVars>>

\* the same update is applied once more (at-least-once delivery)
Redeliver ==
  /\ delivered.times = 1
  /\ \E fault \in BOOLEAN :
       sessions' = Applied(delivered.session_id, delivered.call, delivered.t, fault)
  /\ delivered' = [delivered EXCEPT !.times = 2]
  /\ UNCHANGED <<nextId, pc, local, ai_client, lastPolled, now, returned, rlVars, catalogVars>>

\* ------------------------------------------------ rate limiter and gateway
Window == 60            \* timedelta(minutes=1), in seconds
EstimatedTokens == 100  \* default estimated_tokens of can_make_request
MaxAttempts == 3        \* stop_after_attempt(3)
PromptTokens == {100}        \* len(prompt.split()) of the prompts sent
ResponseTokens == 100        \* len(result.split()) of a text response
NotAvailableError == "AI service is not available"
RateLimitError == "Rate limit exceeded, please try again later"
ProviderError == "provider error"     \* str(e) of a failed or unusable response

RECURSIVE SumTokens(_)
SumTokens(usage) ==
  IF usage = << >> THEN 0 ELSE Head(usage)[2] + SumTokens(Tail(usage))

\* can_make_request that denies only above requests_per_minute
can_make_request_count_off_by_one(timestamps, usage, estimated_tokens, t) ==
  LET one_minute_ago == t - Window
      Young(ts) == ts > one_minute_ago
      YoungUsage(e) == e[1] > one_minute_ago
      kept_ts == SelectSeq(timestamps, Young)
      kept_usage == SelectSeq(usage, YoungUsage)
      allowed == IF Len(kept_ts) > RPM THEN FALSE
                 ELSE IF SumTokens(kept_usage) + estimated_tokens > TPM THEN FALSE
                 ELSE TRUE
  IN [allowed |-> allowed, request_timestamps |-> kept_ts, token_usage |-> kept_usage]

\* can_make_request without the token limit
can_make_request_no_token_limit(timestamps, usage, estimated_tokens, t) ==
  LET one_minute_ago == t - Window
      Young(ts) == ts > one_minute_ago
      YoungUsage(e) == e[1] > one_minute_ago
      kept_ts == SelectSeq(timestamps, Young)
      kept_usage == SelectSeq(usage, YoungUsage)
      allowed == IF Len(kept_ts) >= RPM THEN FALSE ELSE TRUE
  IN [allowed |-> allowed, request_timestamps |-> kept_ts, token_usage |-> kept_usage]

\* can_make_request that does not clean the old entries
can_make_request_no_prune(timestamps, usage, estimated_tokens, t) ==
  LET allowed == IF Len(timestamps) >= RPM THEN FALSE
                 ELSE IF SumTokens(usage) + estimated_tokens > TPM THEN FALSE
                 ELSE TRUE
  IN [allowed |-> allowed, request_timestamps |-> timestamps, token_usage |-> usage]

\* can_make_request that cleans request_timestamps only
can_make_request_one_sided(timestamps, usage, estimated_tokens, t) ==
  LET one_minute_ago == t - Window
      Young(ts) == ts > one_minute_ago
      kept_ts == SelectSeq(timestamps, Young)
      allowed == IF Len(kept_ts) >= RPM THEN FALSE
                 ELSE IF SumTokens(usage) + estimated_tokens > TPM THEN FALSE
                 ELSE TRUE
  IN [allowed |-> allowed, request_timestamps |-> kept_ts, token_usage |-> usage]

\* RateLimiter.can_make_request at time t: both sequences pruned to the
\* entries younger than one minute, then the two limits
can_make_request(timestamps, usage, estimated_tokens, t) ==
  LET one_minute_ago == t - Window
      Young(ts) == ts > one_minute_ago
      YoungUsage(e) == e[1] > one_minute_ago
      kept_ts == SelectSeq(timestamps, Young)
      kept_usage == SelectSeq(usage, YoungUsage)
      allowed == IF Len(kept_ts) >= RPM THEN FALSE
                 ELSE IF SumTokens(kept_usage) + estimated_tokens > TPM THEN FALSE
                 ELSE TRUE
  IN [allowed |-> allowed, request_timestamps |-> kept_ts, token_usage |-> kept_usage]

\* record_request that appends its entry twice
record_request_twice(timestamps, usage, tokens_used, t) ==
  [request_timestamps |-> Append(Append(timestamps, t), t),
   token_usage |-> Append(Append(usage, <<t, tokens_used>>), <<t, tokens_used>>)]

\* RateLimiter.record_request at time t
record_request(timestamps, usage, tokens_used, t) ==
  [request_timestamps |-> Append(timestamps, t),
   token_usage |-> Append(usage, <<t, tokens_used>>)]

\* a tenacity wrapper that gives up after one attempt more
AfterFailedAttempt_one_more(call, e) ==
  IF call.attempt < MaxAttempts + 1
    THEN [call EXCEPT !.pc = "backoff", !.error = e]
    ELSE [call EXCEPT !.pc = "failed", !.error = e]

\* the tenacity wrapper after an attempt that raised e: sleep and retry while
\* fewer than 3 attempts were made, else give up with RetryError
AfterFailedAttempt(call, e) ==
  IF call.attempt < MaxAttempts
    THEN [call EXCEPT !.pc = "backoff", !.error = e]
    ELSE [call EXCEPT !.pc = "failed", !.error = e]

\* the log of transport calls after one more at time t.  Only the last
\* RPM + 1 entries are kept: more than RPM calls lie in the trailing window
\* exactly if the oldest of these does.
LogTransport(log, t) ==
  LET l == Append(log, t)
  IN IF Len(l) > RPM + 1 THEN Tail(l) ELSE l

\* transport calls the provider received in the trailing window
RecentTransports ==
  {i \in DOMAIN transport_log : transport_log[i] > now - Window}

\* a caller enters _make_ai_request (text) or _make_ai_image_request (image)
GwStart(c) ==
  /\ gw[c].pc = "idle"
  /\ calls < MaxCalls
  /\ \E kind \in {"text", "image"}, p \in PromptTokens :
       gw' = [gw EXCEPT ![c] = [IdleCall EXCEPT !.pc = "attempt", !.attempt = 1,
                                                !.kind = kind, !.prompt_tokens = p]]
  /\ calls' = calls + 1
  /\ UNCHANGED <<request_timestamps, token_usage, usage_history, transport_log, now, ai_client, sessionVars, catalogVars>>

\* one attempt up to its await: the availability check, the rate-limit check
\* (which prunes the window), then the transport call is handed to the
\* executor.  Both checks raise before the try/finally that records usage.
GwAttempt(c) ==
  /\ gw[c].pc = "attempt"
  /\ IF ~ai_client
       THEN /\ gw' = [gw EXCEPT ![c] = AfterFailedAttempt(@, NotAvailableError)]
            /\ UNCHANGED <<request_timestamps, token_usage, transport_log>>
       ELSE LET r == can_make_request(request_timestamps, token_usage, EstimatedTokens, now)
            IN /\ request_timestamps' = r.request_timestamps
               /\ token_usage' = r.token_usage
               /\ IF ~r.allowed
                    THEN /\ gw' = [gw EXCEPT ![c] = AfterFailedAttempt(@, RateLimitError)]
                         /\ transport_log' = transport_log
                    ELSE /\ gw' = [gw EXCEPT ![c].pc = "transport", ![c].transports = @ + 1]
                         /\ transport_log' = LogTransport(transport_log, now)
  /\ UNCHANGED <<usage_history, calls, now, ai_client, sessionVars, catalogVars>>

\* the provider's answer arrives: a usable result is recorded with the rate
\* limiter and returned; an error, an empty text or a response without image
\* data fails the attempt.  The finally clause appends the attempt's usage
\* entry in both cases.
GwResponse(c) ==
  /\ gw[c].pc = "transport"
  /\ \E usable \in BOOLEAN :
       /\ usage_history' = [usage_history EXCEPT ![c] = Append(@, usable)]
       /\ IF usable
            THEN LET tokens_used == IF gw[c].kind = "text"
                                      THEN gw[c].prompt_tokens + ResponseTokens
                                      ELSE gw[c].prompt_tokens
                     r == record_request(request_timestamps, token_usage, tokens_used, now)
                 IN /\ request_timestamps' = r.request_timestamps
                    /\ token_usage' = r.token_usage
                    /\ gw' = [gw EXCEPT ![c].pc = "returned", ![c].error = NULL]
            ELSE /\ gw' = [gw EXCEPT ![c] = AfterFailedAttempt(@, ProviderError)]
                 /\ UNCHANGED <<request_timestamps, token_usage>>
  /\ UNCHANGED <<calls, transport_log, now, ai_client, sessionVars, catalogVars>>

\* a retry that repeats the transport call only, without the two checks
GwRetry_unchecked(c) ==
  /\ gw[c].pc = "backoff"
  /\ gw' = [gw EXCEPT ![c].pc = "transport", ![c].attempt = @ + 1, ![c].transports = @ + 1]
  /\ transport_log' = LogTransport(transport_log, now)
  /\ UNCHANGED <<request_timestamps, token_usage, usage_history, calls, now, ai_client, sessionVars, catalogVars>>

\* the backoff sleep (1 s, then 2 s: below the clock's resolution) is over
GwRetry(c) ==
  /\ gw[c].pc = "backoff"
  /\ gw' = [gw EXCEPT ![c].pc = "attempt", ![c].attempt = @ + 1]
  /\ UNCHANGED <<request_timestamps, token_usage, usage_history, calls, transport_log, now, ai_client, sessionVars, catalogVars>>

\* the call is over: its result or RetryError went to the caller
GwFinish(c) ==
  /\ gw[c].pc \in {"returned", "failed"}
  /\ gw' = [gw EXCEPT ![c] = IdleCall]
  /\ usage_history' = [usage_history EXCEPT ![c] = << >>]
  /\ UNCHANGED <<request_timestamps, token_usage, calls, transport_log, now, ai_client, sessionVars, catalogVars>>

\* time passes; transport calls that left every future window are forgotten
Tick ==
  /\ now + TickStep <= MaxTime
  /\ now' = now + TickStep
  /\ LET Recent(ts) == ts > now' - Window
     IN transport_log' = SelectSeq(transport_log, Recent)
  /\ UNCHANGED <<request_timestamps, token_usage, gw, usage_history, calls, ai_client, sessionVars, catalogVars>>

\* ------------------------------------- session store operations, called directly
Day == 86400    \* timedelta(days=1), in seconds

\* creation times of stored sessions, and the time of the direct calls
StoreTimes == {d * Day : d \in 0..MaxDays}
StoreNow == MaxDays * Day

\* a document of user_uid created at t, as the pipeline leaves it in status st
StoredSession(user_uid, st, t) ==
  LET created == NewSession(user_uid, t)
      started == Merge(created, update_data(IN_PROGRESS, 10, NULL, NULL, NULL, EmptyDict, t))
  IN CASE st = PENDING -> created
       [] st = IN_PROGRESS -> started
       [] st = FAILED ->
            Merge(started, update_data(FAILED, NoInt, "Outfit not found", NULL, NULL, EmptyDict, t))
       [] st = COMPLETED ->
            Merge(started, update_data(COMPLETED, 100, NULL, "url", "description", Telemetry(t), t))

StoredSessions ==
  {StoredSession(u, st, t) : u \in Users, st \in {PENDING, IN_PROGRESS, FAILED, COMPLETED}, t \in StoreTimes}

\* create_session that stores the new document under the first id
create_session_reused_id(user_uid, fault) ==
  LET session == NewSession(user_uid, now)
  IN IF fault
       THEN [raised |-> TRUE, session_id |-> 0, session |-> NoDoc, store |-> sessions]
       ELSE [raised |-> FALSE, session_id |-> 1, session |-> session,
             store |-> [sessions EXCEPT ![1] = session]]

\* TryOnSessionService.create_session: a TryOnSession with a fresh uuid4 id
\* and the defaults of the model, written with doc_ref.set and returned; an
\* exception of the store is raised again
create_session(user_uid, fault) ==
  LET session == NewSession(user_uid, now)
  IN IF fault
       THEN [raised |-> TRUE, session_id |-> 0, session |-> NoDoc, store |-> sessions]
       ELSE [raised |-> FALSE, session_id |-> nextId, session |-> session,
             store |-> [sessions EXCEPT ![nextId] = session]]

CreateSession(u) ==
  /\ nextId <= MaxDocs
  /\ \E fault \in BOOLEAN :
       LET r == create_session(u, fault)
       IN /\ sessions' = r.store
          /\ nextId' = IF r.raised THEN nextId ELSE nextId + 1
          /\ returned' = [op |-> "create_session", user_uid |-> u, raised |-> r.raised,
                          session_id |-> r.session_id, session |-> r.session]
  /\ UNCHANGED <<pc, local, ai_client, lastPolled, now, delivered, rlVars, catalogVars>>

\* a direct call of delete_session(u, sid)
DeleteStored(u, sid) ==
  /\ \E r \in {delete_session(u, sid, read_fault, write_fault) :
                 read_fault \in BOOLEAN, write_fault \in BOOLEAN} :
          /\ sessions' = r.store
          /\ returned' = [op |-> "delete_session", user_uid |-> u, session_id |-> sid,
                          result |-> r.result]
  /\ UNCHANGED <<nextId, pc, local, ai_client, lastPolled, now, delivered, rlVars, catalogVars>>

\* the cleanup query without its status filter
cleanup_query_any_status(days_old, comparable) ==
  LET cutoff_date == now - days_old * Day
  IN {id \in DOMAIN sessions :
        /\ sessions[id] # NoDoc
        /\ comparable
        /\ sessions[id].created_at < cutoff_date}

\* The query of cleanup_old_sessions: created_at < cutoff_date.isoformat() and
\* status in [completed, failed, cancelled].  created_at is stored as a
\* datetime and compared with an ISO string: the store orders the two by time
\* (comparable), or matches no document.
cleanup_query(days_old, comparable) ==
  LET cutoff_date == now - days_old * Day
  IN {id \in DOMAIN sessions :
        /\ sessions[id] # NoDoc
        /\ comparable
        /\ sessions[id].created_at < cutoff_date
        /\ sessions[id].status \in TerminalStatuses}

\* TryOnSessionService.cleanup_old_sessions: every matching document is
\* deleted, except those whose delete raised (failed); 0 when the query raised
cleanup_old_sessions(days_old, query_fault, comparable, failed) ==
  LET deleted == IF query_fault THEN {} ELSE cleanup_query(days_old, comparable) \ failed
  IN [count |-> Cardinality(deleted),
      store |-> [id \in DOMAIN sessions |-> IF id \in deleted THEN NoDoc ELSE sessions[id]]]

\* a direct call of cleanup_old_sessions(days_old)
CleanupOldSessions ==
  /\ \E days_old \in 0..MaxDays :
       \E r \in {cleanup_old_sessions(days_old, query_fault, comparable, failed) :
                 query_fault \in BOOLEAN, comparable \in BOOLEAN, failed \in SUBSET StoreIds} :
          /\ sessions' = r.store
          /\ returned' = [op |-> "cleanup_old_sessions", days_old |-> days_old, result |-> r.count]
  /\ UNCHANGED <<nextId, pc, local, ai_client, lastPolled, now, delivered, rlVars, catalogVars>>

\* a store that holds sessions of several owners, states and ages; ids below
\* nextId that hold no document were deleted
InitStore ==
  /\ sessions \in [StoreIds -> {NoDoc} \cup StoredSessions]
  /\ nextId \in 1..(MaxDocs + 1)
  /\ \A id \in StoreIds : id >= nextId => sessions[id] = NoDoc
  /\ pc = [s \in SessionIds |-> "idle"]
  /\ local = [s \in SessionIds |-> InitLocal]
  /\ ai_client = TRUE
  /\ lastPolled = NoPoll
  /\ delivered = NoDelivery
  /\ returned = NoReturn
  /\ now = StoreNow
  /\ request_timestamps = << >>
  /\ token_usage = << >>
  /\ gw = [c \in Callers |-> IdleCall]
  /\ usage_history = [c \in Callers |-> << >>]
  /\ calls = 0
  /\ transport_log = << >>
  /\ CatalogEmpty

\* ------------------------------------------------------ users and profiles
DisplayNames == {"a", "b"}
Bios == {"x", "y"}

\* FirestoreHelper.get_document: the document, or None when it does not
\* exist or the read raised
get_document(collection, document_id, fault) ==
  IF fault THEN NoDoc ELSE collection[document_id]

catalogFrame == <<sessions, nextId, pc, local, ai_client, lastPolled, now, delivered, rlVars>>

\* UserService.create_user: 409 when get_user_by_uid finds the user, 500 when
\* create_document returns False, else the document is set
create_user(uid, display_name, read_fault, write_fault) ==
  IF get_document(users, uid, read_fault) # NoDoc
    THEN [code |-> 409, detail |-> "User already exists", store |-> users]
  ELSE IF write_fault
    THEN [code |-> 500, detail |-> "Failed to create user", store |-> users]
  ELSE [code |-> 200, detail |-> NULL,
        store |-> [users EXCEPT ![uid] = [uid |-> uid, display_name |-> display_name]]]

CreateUser(uid) ==
  /\ \E r \in {create_user(uid, display_name, read_fault, write_fault) :
                 display_name \in DisplayNames, read_fault \in BOOLEAN, write_fault \in BOOLEAN} :
          /\ users' = r.store
          /\ returned' = [op |-> "create_user", uid |-> uid, code |-> r.code, detail |-> r.detail]
  /\ UNCHANGED <<profiles, items, outfits, catalogFrame>>

\* ProfileService.create_profile: 409 when get_profile_by_user_uid finds the
\* profile, 500 when create_document returns False, else the document is set
create_profile(user_uid, bio, read_fault, write_fault) ==
  IF get_document(profiles, user_uid, read_fault) # NoDoc
    THEN [code |-> 409, detail |-> "Profile already exists for this user", store |-> profiles]
  ELSE IF write_fault
    THEN [code |-> 500, detail |-> "Failed to create profile", store |-> profiles]
  ELSE [code |-> 200, detail |-> NULL,
        store |-> [profiles EXCEPT ![user_uid] = [user_uid |-> user_uid, bio |-> bio]]]

CreateProfile(user_uid) ==
  /\ \E r \in {create_profile(user_uid, bio, read_fault, write_fault) :
                 bio \in Bios, read_fault \in BOOLEAN, write_fault \in BOOLEAN} :
          /\ profiles' = r.store
          /\ returned' = [op |-> "create_profile", uid |-> user_uid, code |-> r.code, detail |-> r.detail]
  /\ UNCHANGED <<users, items, outfits, catalogFrame>>

\* ------------------------------------------------------------------ outfits
\* the clothing_item_ids of an outfit request (min_items=1)
ItemLists == UNION {[1..n -> ItemIds] : n \in 1..MaxListed}

\* the verification of one listed item in create_outfit
ItemCheck(user_uid, item_id, fault) ==
  LET doc_data == get_document(items, item_id, fault)
  IN IF doc_data = NoDoc THEN "Clothing item not found"
     ELSE IF doc_data.user_uid # user_uid THEN "Access denied to clothing item"
     ELSE "ok"

\* create_outfit that verifies the first listed item only
create_outfit_first_item_only(user_uid, clothing_item_ids, faulty, write_fault) ==
  IF ItemCheck(user_uid, clothing_item_ids[1], 1 \in faulty) # "ok"
    THEN [code |-> 400, detail |-> ItemCheck(user_uid, clothing_item_ids[1], 1 \in faulty),
          store |-> outfits]
  ELSE IF write_fault
    THEN [code |-> 500, detail |-> "Failed to create outfit", store |-> outfits]
  ELSE [code |-> 200, detail |-> NULL,
        store |-> Append(outfits, [user_uid |-> user_uid, clothing_item_ids |-> clothing_item_ids])]

\* OutfitService.create_outfit: the listed items are verified in order (the
\* reads at the positions in faulty raise), the first one that is missing or
\* foreign ends the call with 400; then the outfit is stored under a fresh id
create_outfit(user_uid, clothing_item_ids, faulty, write_fault) ==
  LET rejected == {i \in 1..Len(clothing_item_ids) :
                     ItemCheck(user_uid, clothing_item_ids[i], i \in faulty) # "ok"}
  IN IF rejected # {}
       THEN LET i == CHOOSE j \in rejected : \A k \in rejected : j <= k
            IN [code |-> 400, detail |-> ItemCheck(user_uid, clothing_item_ids[i], i \in faulty),
                store |-> outfits]
     ELSE IF write_fault
       THEN [code |-> 500, detail |-> "Failed to create outfit", store |-> outfits]
     ELSE [code |-> 200, detail |-> NULL,
           store |-> Append(outfits, [user_uid |-> user_uid, clothing_item_ids |-> clothing_item_ids])]

CreateOutfit(u, clothing_item_ids) ==
  /\ Len(outfits) < MaxOutfits
  /\ \E r \in {create_outfit(u, clothing_item_ids, faulty, write_fault) :
                 faulty \in SUBSET (1..Len(clothing_item_ids)), write_fault \in BOOLEAN} :
          /\ outfits' = r.store
          /\ returned' = [op |-> "create_outfit", user_uid |-> u,
                          clothing_item_ids |-> clothing_item_ids,
                          code |-> r.code, detail |-> r.detail]
  /\ UNCHANGED <<users, profiles, items, catalogFrame>>

\* a wardrobe that holds clothing items of both users, and no outfit
InitOutfits ==
  /\ sessions = [s \in SessionIds |-> NoDoc]
  /\ nextId = 1
  /\ pc = [s \in SessionIds |-> "idle"]
  /\ local = [s \in SessionIds |-> InitLocal]
  /\ ai_client = TRUE
  /\ lastPolled = NoPoll
  /\ delivered = NoDelivery
  /\ returned = NoReturn
  /\ now = 0
  /\ request_timestamps = << >>
  /\ token_usage = << >>
  /\ gw = [c \in Callers |-> IdleCall]
  /\ usage_history = [c \in Callers |-> << >>]
  /\ calls = 0
  /\ transport_log = << >>
  /\ users = [uid \in Users |-> NoDoc]
  /\ profiles = [uid \in Users |-> NoDoc]
  /\ items \in [ItemIds -> {NoDoc} \cup {[user_uid |-> u] : u \in Users}]
  /\ outfits = << >>

\* ------------------------------------------------------- specifications
Next ==
  \/ \E u \in Users : StartGeneration(u)
  \/ \E u \in Users, sid \in SessionIds : GetStatus(u, sid)
  \/ \E u \in Users : ListSessions(u)
  \/ \E u \in Users, sid \in SessionIds : DeleteSession(u, sid)
  \/ \E s \in SessionIds : TaskStart(s)
  \/ \E s \in SessionIds : TaskGetSession(s)
  \/ \E s \in SessionIds : TaskGetOutfit(s)
  \/ \E s \in SessionIds : TaskLoadItems(s)
  \/ \E s \in SessionIds : TaskUpdate30(s)
  \/ \E s \in SessionIds : TaskUpdate50(s)
  \/ \E s \in SessionIds : TaskGenerateImage(s)
  \/ \E s \in SessionIds : TaskUpdate80(s)
  \/ \E s \in SessionIds : TaskSaveImage(s)
  \/ \E s \in SessionIds : TaskDescribe(s)
  \/ \E s \in SessionIds : TaskComplete(s)
  \/ \E s \in SessionIds : TaskFail(s)

NextRL ==
  \/ \E c \in Callers : GwStart(c)
  \/ \E c \in Callers : GwAttempt(c)
  \/ \E c \in Callers : GwResponse(c)
  \/ \E c \in Callers : GwRetry(c)
  \/ \E c \in Callers : GwFinish(c)
  \/ Tick

\* the pipeline and the endpoints, with the clock running
NextT ==
  \/ Next
  \/ Tick

\* direct calls of update_session_status on stored sessions, with the clock
NextUS ==
  \/ \E u \in Users : StartGeneration(u)
  \/ \E s \in SessionIds, n \in UpdateCalls : Deliver(s, n)
  \/ Redeliver
  \/ Tick

vars == <<sessions, nextId, pc, local, ai_client, lastPolled, delivered, returned, now,
          request_timestamps, token_usage, gw, usage_history, calls, transport_log,
          users, profiles, items, outfits>>

\* direct calls of create_session, delete_session and cleanup_old_sessions
NextStore ==
  \/ \E u \in Users : CreateSession(u)
  \/ \E u \in Users, sid \in StoreIds : DeleteStored(u, sid)
  \/ CleanupOldSessions

\* direct calls of create_user and create_profile
NextAccounts ==
  \/ \E uid \in Users : CreateUser(uid)
  \/ \E uid \in Users : CreateProfile(uid)

\* direct calls of create_outfit
NextOutfits == \E u \in Users, clothing_item_ids \in ItemLists : CreateOutfit(u, clothing_item_ids)

\* sessions, their pipelines and the endpoints
Spec == Init /\ [][Next]_vars

\* the AI gateway's callers, the rate limiter and the clock
SpecRL == Init /\ [][NextRL]_vars

\* sessions and their pipelines while time passes
SpecT == Init /\ [][NextT]_vars

\* update_session_status as an operation on stored sessions
SpecUS == Init /\ [][NextUS]_vars

\* user and profile creation
SpecAccounts == Init /\ [][NextAccounts]_vars

\* outfit creation on a populated wardrobe
SpecOutfits == InitOutfits /\ [][NextOutfits]_vars

\* the other operations of the session store on a populated store
SpecStore == InitStore /\ [][NextStore]_vars


\* ------------------------------------------------------------- properties
Exists(s) == sessions[s] # NoDoc

\* C1: the progress_percentage returned by consecutive status polls of a
\* session never decreases, as long as the previous poll did not show a
\* terminal status
C1_PolledProgressNeverDecreases ==
  [][(lastPolled # NoPoll /\ lastPolled.status \notin TerminalStatuses)
       => lastPolled'.progress_percentage >= lastPolled.progress_percentage]_vars

\* a status poll has shown the finished session at progress 100
C1_Witness ==
  \E s \in SessionIds :
    /\ Exists(s)
    /\ lastPolled = [session_id |-> s, status |-> COMPLETED, progress_percentage |-> 100]
    /\ sessions[s].status = COMPLETED

\* C2: when a pipeline run has finished, the stored status of its session is
\* COMPLETED or FAILED
C2_FinishedRunIsTerminal ==
  \A s \in SessionIds :
    (pc[s] = "done" /\ Exists(s)) => sessions[s].status \in {COMPLETED, FAILED}

\* C3: generated_image_url is non-null if and only if status is COMPLETED
C3_UrlIffCompleted ==
  \A s \in SessionIds :
    Exists(s) => ((sessions[s].generated_image_url # NULL) <=> (sessions[s].status = COMPLETED))

C3_Witness ==
  \E s \in SessionIds :
    Exists(s) /\ sessions[s].status = COMPLETED /\ sessions[s].generated_image_url = "url"

\* C4: error_message is non-null if and only if status is FAILED
C4_ErrorIffFailed ==
  \A s \in SessionIds :
    Exists(s) => ((sessions[s].error_message # NULL) <=> (sessions[s].status = FAILED))

C4_Witness ==
  \E s \in SessionIds :
    /\ Exists(s)
    /\ sessions[s].status = FAILED
    /\ sessions[s].error_message = "Failed to save generated image"

\* C5: no step changes the status of a session whose stored status is
\* COMPLETED, FAILED or CANCELLED
C5_TerminalStatusIsKept ==
  [][\A s \in SessionIds :
       (Exists(s) /\ sessions[s].status \in TerminalStatuses /\ sessions'[s] # NoDoc)
         => sessions'[s].status = sessions[s].status]_vars

\* a session failed, and a status poll after that has shown it as FAILED
C5_Witness ==
  \E s \in SessionIds :
    /\ Exists(s)
    /\ pc[s] = "done"
    /\ sessions[s].status = FAILED
    /\ lastPolled.session_id = s
    /\ lastPolled.status = FAILED

\* the outfit resolved to at least one item, the gateway was available and
\* returned an image, and the blob store returned a URL
SuccessConditions(s) ==
  /\ local[s].clothing_items >= 1
  /\ ai_client
  /\ local[s].generated_image_data # NULL
  /\ local[s].image_url # NULL

\* the run of session s returns in this step
Returns(s) == pc[s] # "done" /\ pc'[s] = "done"

\* C6: under the success conditions the stored session reaches the end of
\* PENDING(0), IN_PROGRESS(10), (30), (50), (80), COMPLETED(100): when the run
\* returns, it leaves the session COMPLETED at progress 100 with
\* generated_image_url and ai_description set
C6_SuccessPathFollowed ==
  [][\A s \in SessionIds :
       (Returns(s) /\ SuccessConditions(s) /\ sessions'[s] # NoDoc)
         => /\ sessions'[s].status = COMPLETED
            /\ sessions'[s].progress_percentage = 100
            /\ sessions'[s].generated_image_url # NULL
            /\ sessions'[s].ai_description # NULL]_vars

\* error_message carries the message of exception e
Carries(error_message, e) ==
  error_message \in {"Image generation failed: " \o e, "Task failed: " \o e}

\* C7 as claimed: the task never raises, and a run in which an exception was
\* raised returns from the FAILED update that carries the exception's message
C7_EveryExceptionBecomesFailed ==
  [][\A s \in SessionIds :
       /\ pc'[s] # "raised"
       /\ (Returns(s) /\ local[s].raised # NULL)
            => /\ pc[s] = "fail"
               /\ Carries(local[s].error_message, local[s].raised)]_vars

\* C7 as amended: the task never raises, and after an exception of the
\* image-generation call the task stands before the FAILED update that
\* carries the exception's message, and returns from it
C7_NeverRaisesAndGatewayErrorBecomesFailed ==
  [][\A s \in SessionIds :
       /\ pc'[s] # "raised"
       /\ (local[s].raised = GatewayError)
            => /\ pc[s] = "fail"
               /\ Carries(local[s].error_message, GatewayError)
               /\ pc'[s] \in {"fail", "done"}]_vars

\* a run whose image generation raised has returned and left its session
\* FAILED with the exception's message
C7_Witness ==
  \E s \in SessionIds :
    /\ pc[s] = "done"
    /\ Exists(s)
    /\ sessions[s].status = FAILED
    /\ sessions[s].error_message = "Image generation failed: " \o GatewayError

\* C8: get_session(user, id) returns a session only when a document with
\* that id exists and its stored owner is user, and then that document
C8_GetSessionIsOwnerScoped ==
  \A u \in Users, sid \in SessionIds, fault \in BOOLEAN :
    LET r == get_session(u, sid, fault)
    IN r # NoDoc => (Exists(sid) /\ sessions[sid].user_uid = u /\ r = sessions[sid])

\* the owner u1 has polled a session and can read it, and u2 cannot
C8_Witness ==
  \E sid \in SessionIds :
    /\ Exists(sid)
    /\ sessions[sid].user_uid = "u1"
    /\ lastPolled.session_id = sid
    /\ get_session("u1", sid, FALSE) = sessions[sid]
    /\ get_session("u2", sid, FALSE) = NoDoc

\* caller does not own session sid: it does not exist, or is another user's
NotOwned(caller, sid) == sessions[sid] = NoDoc \/ sessions[sid].user_uid # caller

\* C9: a status or delete request for a session the caller does not own is
\* answered 404 "Session not found", whether the session exists or not, and
\* leaves the store unchanged
C9_NonOwnerLearnsNothing ==
  \A u \in Users, sid \in SessionIds, read_fault \in BOOLEAN, write_fault \in BOOLEAN :
    NotOwned(u, sid)
      => /\ get_try_on_status(u, sid, read_fault) = Response(404, "Session not found", NoBody)
         /\ delete_try_on_session(u, sid, read_fault, write_fault) =
              [code |-> 404, detail |-> "Session not found", store |-> sessions]

\* a finished session of u1 that u1 can delete and u2 is told does not exist
C9_Witness ==
  \E sid \in SessionIds :
    /\ Exists(sid)
    /\ sessions[sid].user_uid = "u1"
    /\ pc[sid] = "done"
    /\ delete_try_on_session("u1", sid, FALSE, FALSE).code = 200
    /\ delete_try_on_session("u2", sid, FALSE, FALSE).code = 404
    /\ get_try_on_status("u2", sid, FALSE).code = 404

\* C10: the provider never receives more than requests_per_minute transport
\* calls within a trailing 60-second window
C10_TransportCallsWithinLimit ==
  Cardinality(RecentTransports) <= RPM

\* the recorded entries that lie in the trailing 60-second window
InWindow(ts) == ts > now - Window
WindowTimestamps == SelectSeq(request_timestamps, InWindow)
UsageInWindow(e) == InWindow(e[1])
WindowUsage == SelectSeq(token_usage, UsageInWindow)
WindowCount == Len(WindowTimestamps)
WindowTokens == SumTokens(WindowUsage)

\* values of estimated_tokens a check is asked with
Estimates == {0, EstimatedTokens, TPM + 1}

\* the outcome of can_make_request(est) asked now
Check(est) == can_make_request(request_timestamps, token_usage, est, now)

\* the rate limiter has denied caller c's last attempt
Denied(c) == gw[c].pc \in {"backoff", "failed"} /\ gw[c].error = RateLimitError

\* C11: while requests_per_minute recorded requests lie in the trailing
\* 60-second window, can_make_request returns false, whatever the estimate
C11_DeniedWhileWindowFull ==
  WindowCount >= RPM => \A est \in Estimates : ~Check(est).allowed

\* the window holds requests_per_minute requests and a caller was denied
C11_Witness ==
  /\ WindowCount >= RPM
  /\ \E c \in Callers : Denied(c)

\* C12: can_make_request(estimated_tokens) returns false whenever the tokens
\* recorded in the window plus estimated_tokens exceed tokens_per_minute,
\* also when the window holds fewer requests than requests_per_minute
C12_DeniedWhenTokensExceed ==
  \A est \in Estimates : (WindowTokens + est > TPM) => ~Check(est).allowed

\* a caller was denied for tokens while the request budget was not used up
C12_Witness ==
  /\ WindowCount < RPM
  /\ WindowTokens + EstimatedTokens > TPM
  /\ \E c \in Callers : Denied(c)

\* C13 as claimed: can_make_request leaves in both sequences the entries of
\* the trailing 60 seconds, and returns true only if their count is below
\* requests_per_minute and their token sum plus estimated_tokens is less than
\* tokens_per_minute
C13_AllowedOnlyBelowBothCaps ==
  \A est \in Estimates :
    /\ Check(est).request_timestamps = WindowTimestamps
    /\ Check(est).token_usage = WindowUsage
    /\ Check(est).allowed => (WindowCount < RPM /\ WindowTokens + est < TPM)

\* C13 as amended: the same, with the token sum plus estimated_tokens not
\* above tokens_per_minute
C13_AllowedOnlyWithinBothCaps ==
  \A est \in Estimates :
    /\ Check(est).request_timestamps = WindowTimestamps
    /\ Check(est).token_usage = WindowUsage
    /\ Check(est).allowed => (WindowCount < RPM /\ WindowTokens + est <= TPM)

\* a request was admitted that fills the token budget exactly, at a time
\* when an entry had aged out of the window
C13_Witness ==
  /\ \E c \in Callers : gw[c].pc = "transport"
  /\ WindowCount < RPM
  /\ WindowTokens + EstimatedTokens = TPM
  /\ now >= Window

\* C14: the token weights recorded in the trailing 60-second window never
\* sum to more than tokens_per_minute
C14_WindowTokensWithinLimit ==
  WindowTokens <= TPM

\* C15: a call that returned after its transport call failed twice and
\* succeeded the third time has added exactly one usage entry, success=true
C15_ThirdAttemptSuccessLogsOnce ==
  \A c \in Callers :
    (gw[c].pc = "returned" /\ gw[c].transports = MaxAttempts)
      => usage_history[c] = <<TRUE>>

\* C16: no call makes more than 3 attempts or issues more than 3 transport
\* calls, and a call whose three transport calls failed has ended in failure
\* with usage entries of success=false only
C16_ThreeFailuresEndTheCall ==
  \A c \in Callers :
    /\ gw[c].attempt <= MaxAttempts
    /\ gw[c].transports <= MaxAttempts
    /\ (gw[c].transports = MaxAttempts /\ gw[c].pc \notin {"transport", "returned"})
         => /\ gw[c].pc = "failed"
            /\ gw[c].error = ProviderError
            /\ usage_history[c] = <<FALSE, FALSE, FALSE>>

\* a call has failed after three failed transport calls
C16_Witness ==
  \E c \in Callers :
    /\ gw[c].pc = "failed"
    /\ gw[c].transports = MaxAttempts
    /\ usage_history[c] = <<FALSE, FALSE, FALSE>>

\* C17: a call the rate limiter denies has failed at once: it is not sent to
\* backoff and makes no further attempt
C17_RateLimitDenialFailsFast ==
  \A c \in Callers :
    gw[c].error = RateLimitError => gw[c].pc = "failed"

\* C18: a call that is over has appended a usage entry, and the success flag
\* of what it appended is true exactly if the call returned a result
C18_EveryCallLogsItsOutcome ==
  \A c \in Callers :
    gw[c].pc \in {"returned", "failed"}
      => /\ usage_history[c] # << >>
         /\ \A i \in DOMAIN usage_history[c] :
              usage_history[c][i] = (gw[c].pc = "returned")

\* the fields of a TryOnSession, as get_session returns them (updated_at is
\* written to the document but is no field of the model)
SessionFields == DOMAIN NewSession("u1", 0)
SessionView(d) == [k \in SessionFields |-> d[k]]

\* C19: applying the same update twice in a row leaves the session as
\* applying it once did
C19_UpdateIsIdempotent ==
  [][(delivered.times = 1 /\ delivered'.times = 2)
       => SessionView(sessions'[delivered.session_id]) =
            SessionView(sessions[delivered.session_id])]_vars

\* C20: a session that is IN_PROGRESS has started_at set, and once set
\* started_at is changed by no later update of the session
C20_StartedAtStampedOnce ==
  [][\A s \in SessionIds :
       /\ (Exists(s) /\ sessions[s].status = IN_PROGRESS) => sessions[s].started_at # NoInt
       /\ (Exists(s) /\ sessions[s].started_at # NoInt /\ sessions'[s] # NoDoc)
            => sessions'[s].started_at = sessions[s].started_at]_vars

\* ------------------------------------------------ the pipeline's failure exits
\* the run of session s returns in this step from the FAILED update that
\* carries error_message msg
FailedReturn(s, msg) ==
  /\ Returns(s)
  /\ pc[s] = "fail"
  /\ local[s].error_message = msg

\* C21: a run that could not resolve the outfit, or resolved no clothing
\* item, leaves the session FAILED with 'Outfit not found' or 'No clothing
\* items found', and has made no AI gateway call and no blob upload
C21_UnresolvedOutfitEndsFailed ==
  [][\A s \in SessionIds :
       \A msg \in {"Outfit not found", "No clothing items found"} :
         (FailedReturn(s, msg) /\ sessions'[s] # NoDoc)
           => /\ sessions'[s].status = FAILED
              /\ sessions'[s].error_message = msg
              /\ local[s].external_calls = << >>]_vars

\* the progress values the pipeline writes before it can fail
ProgressBeforeFailure == {StepProgress(step) : step \in {"update10", "update30", "update50", "update80"}}

\* C22: a step that turns a session FAILED leaves its progress_percentage as
\* it was, and that value is one the pipeline wrote before the failure: 10,
\* 30, 50 or 80
C22_FailureKeepsProgress ==
  [][\A s \in SessionIds :
       (/\ Exists(s)
        /\ sessions'[s] # NoDoc
        /\ sessions[s].status # FAILED
        /\ sessions'[s].status = FAILED)
         => /\ sessions'[s].progress_percentage = sessions[s].progress_percentage
            /\ sessions'[s].progress_percentage \in ProgressBeforeFailure]_vars

\* C23: a run whose blob upload failed leaves the session FAILED with
\* 'Failed to save generated image' and without generated_image_url, and has
\* made no description call and no COMPLETED update
C23_FailedUploadEndsFailed ==
  [][\A s \in SessionIds :
       (FailedReturn(s, "Failed to save generated image") /\ sessions'[s] # NoDoc)
         => /\ sessions'[s].status = FAILED
            /\ sessions'[s].error_message = "Failed to save generated image"
            /\ sessions'[s].generated_image_url = NULL
            /\ local[s].external_calls = <<"generate", "upload">>
            /\ sessions[s].status # COMPLETED]_vars

\* C24: a run that found the AI gateway unavailable leaves the session FAILED
\* with 'AI service not available' at a progress below 50, and has made no
\* gateway call and no blob upload
C24_UnavailableGatewayEndsFailed ==
  [][\A s \in SessionIds :
       (FailedReturn(s, "AI service not available") /\ sessions'[s] # NoDoc)
         => /\ sessions'[s].status = FAILED
            /\ sessions'[s].error_message = "AI service not available"
            /\ sessions'[s].progress_percentage < 50
            /\ local[s].external_calls = << >>]_vars

\* C25: a run whose image generation and blob upload succeeded and whose
\* description call failed leaves the session COMPLETED at progress 100 with
\* the generated_image_url and the fallback sentence as ai_description
C25_FailedDescriptionStillCompletes ==
  [][\A s \in SessionIds :
       (/\ Returns(s)
        /\ local[s].generated_image_data # NULL
        /\ local[s].image_url # NULL
        /\ local[s].raised = DescriptionError
        /\ sessions'[s] # NoDoc)
         => /\ pc[s] = "complete"
            /\ sessions'[s].status = COMPLETED
            /\ sessions'[s].progress_percentage = 100
            /\ sessions'[s].generated_image_url = local[s].image_url
            /\ sessions'[s].ai_description = FallbackDescription]_vars

\* C26: a stored session shows progress_percentage 100 only while its status
\* is COMPLETED
C26_FullProgressOnlyWhenCompleted ==
  \A s \in SessionIds :
    (Exists(s) /\ sessions[s].progress_percentage = 100) => sessions[s].status = COMPLETED

\* a run has written the COMPLETED update with progress 100 and returned
C26_Witness ==
  \E s \in SessionIds :
    /\ Exists(s)
    /\ pc[s] = "done"
    /\ sessions[s].progress_percentage = 100
    /\ sessions[s].status = COMPLETED
    /\ sessions[s].ai_description # NULL

\* ------------------------------------------------------ creation of a run
\* the run of session s is scheduled in this step
Scheduled(s) == pc[s] = "idle" /\ pc'[s] # "idle"

\* C27: a run is scheduled only by a creation request that has persisted the
\* session as PENDING and answers 200 with that session's id and status
\* PENDING; when the response is produced the run has not executed a
\* statement yet; and a session whose run was scheduled never gets a second
\* one
C27_OneRunScheduledAfterPersist ==
  [][\A s \in SessionIds :
       /\ Scheduled(s)
            => /\ ~Exists(s)
               /\ sessions'[s] # NoDoc
               /\ sessions'[s].status = PENDING
               /\ sessions'[s].progress_percentage = 0
               /\ pc'[s] = "update10"
               /\ local'[s].external_calls = << >>
               /\ \E u \in Users :
                    LET r == start_try_on_image_generation(u, TRUE, FALSE)
                    IN /\ r.code = 200
                       /\ r.session_id = s
                       /\ r.status = PENDING
                       /\ sessions'[s].user_uid = u
       /\ (pc[s] # "idle" /\ pc'[s] # pc[s]) => pc'[s] \notin {"idle", "update10"}
       /\ (~Exists(s) /\ sessions'[s] # NoDoc) => Scheduled(s)]_vars

\* the creation request was answered and the run it scheduled has not
\* started: the session is stored as PENDING at progress 0
C27_Witness ==
  \E s \in SessionIds :
    /\ pc[s] = "update10"
    /\ Exists(s)
    /\ sessions[s].status = PENDING
    /\ sessions[s].progress_percentage = 0
    /\ nextId = s + 1

\* --------------------------------------------------- session store operations
\* C28: a create_session call that returns has stored the session it returns
\* under an id that no existing session has, with status PENDING, progress 0
\* and null generated_image_url and error_message, and has left every other
\* document as it was
C28_CreateSessionIsFreshAndPending ==
  [][\A u \in Users :
       (CreateSession(u) /\ ~returned'.raised)
         => LET id == returned'.session_id
                session == returned'.session
            IN /\ id \in StoreIds
               /\ ~Exists(id)
               /\ sessions'[id] = session
               /\ session.user_uid = u
               /\ session.status = PENDING
               /\ session.progress_percentage = 0
               /\ session.generated_image_url = NULL
               /\ session.error_message = NULL
               /\ \A other \in StoreIds \ {id} : sessions'[other] = sessions[other]]_vars

\* create_session has returned a PENDING session next to a finished one
C28_Witness ==
  /\ returned.op = "create_session"
  /\ ~returned.raised
  /\ sessions[returned.session_id] = returned.session
  /\ sessions[returned.session_id].status = PENDING
  /\ \E other \in StoreIds \ {returned.session_id} :
       Exists(other) /\ sessions[other].status = COMPLETED

\* C29: delete_session(user, id) returns true only when the session exists
\* and is owned by user, and then the document is gone and get_session for
\* the id returns absent; when it returns false no document is deleted; no
\* other document is touched
C29_DeleteSessionIsOwnerScoped ==
  [][\A u \in Users, sid \in StoreIds :
       DeleteStored(u, sid)
         => /\ returned'.result
                 => /\ Exists(sid)
                    /\ sessions[sid].user_uid = u
                    /\ sessions'[sid] = NoDoc
                    /\ \A fault \in BOOLEAN : get_session(u, sid, fault)' = NoDoc
            /\ ~returned'.result => sessions' = sessions
            /\ (~Exists(sid) \/ sessions[sid].user_uid # u) => ~returned'.result
            /\ \A other \in StoreIds \ {sid} : sessions'[other] = sessions[other]]_vars

\* the owner's delete_session has returned true: the document is gone, and a
\* session of the other user is still stored
C29_Witness ==
  /\ returned.op = "delete_session"
  /\ returned.result
  /\ sessions[returned.session_id] = NoDoc
  /\ get_session(returned.user_uid, returned.session_id, FALSE) = NoDoc
  /\ \E other \in StoreIds : Exists(other) /\ sessions[other].user_uid # returned.user_uid

\* session id is older than days_old days
OlderThanCutoff(id, days_old) == sessions[id].created_at < now - days_old * Day

\* this step is a call of cleanup_old_sessions: every direct call records its
\* own operation in returned
CleanupStep == returned'.op = "cleanup_old_sessions"

\* C30: cleanup_old_sessions(days_old) deletes only sessions whose status is
\* COMPLETED, FAILED or CANCELLED and whose created_at is older than the
\* cutoff; a session that is not older than the cutoff, and a PENDING or
\* IN_PROGRESS session of any age, is kept as it was
C30_CleanupDeletesOnlyOldTerminalSessions ==
  [][CleanupStep
       => \A id \in StoreIds :
            /\ (Exists(id) /\ sessions'[id] = NoDoc)
                 => /\ sessions[id].status \in TerminalStatuses
                    /\ OlderThanCutoff(id, returned'.days_old)
            /\ (Exists(id) /\ (\/ ~OlderThanCutoff(id, returned'.days_old)
                               \/ sessions[id].status \in {PENDING, IN_PROGRESS}))
                 => sessions'[id] = sessions[id]
            /\ sessions'[id] # NoDoc => sessions'[id] = sessions[id]]_vars

\* cleanup_old_sessions has deleted a session and kept an unfinished one that
\* is older than the cutoff
C30_Witness ==
  /\ returned.op = "cleanup_old_sessions"
  /\ returned.result >= 1
  /\ \E id \in StoreIds :
       /\ Exists(id)
       /\ sessions[id].status \in {PENDING, IN_PROGRESS}
       /\ OlderThanCutoff(id, returned.days_old)

\* ------------------------------------------------------------- status view
\* C31: the status response of every session carries
\* estimated_completion_time 60 when the session is PENDING, the floor of
\* (100 - progress_percentage) / 2 when it is IN_PROGRESS (10 at progress 80),
\* and null when it is COMPLETED, FAILED or CANCELLED
C31_EstimateFollowsStatus ==
  \A sid \in SessionIds :
    Exists(sid) =>
      LET r == get_try_on_status(sessions[sid].user_uid, sid, FALSE)
          e == r.body.estimated_completion_time
          p == r.body.progress_percentage
      IN /\ r.code = 200
         /\ r.body.status = PENDING => e = 60
         /\ r.body.status = IN_PROGRESS => (2 * e <= 100 - p /\ 100 - p < 2 * e + 2)
         /\ (r.body.status = IN_PROGRESS /\ p = 80) => e = 10
         /\ r.body.status \in TerminalStatuses => e = NoInt

\* a poll has shown the session IN_PROGRESS at progress 80, and the response
\* to the next poll carries the estimate 10
C31_Witness ==
  \E sid \in SessionIds :
    /\ Exists(sid)
    /\ lastPolled.session_id = sid
    /\ lastPolled.status = IN_PROGRESS
    /\ lastPolled.progress_percentage = 80
    /\ get_try_on_status(sessions[sid].user_uid, sid, FALSE).body.estimated_completion_time = 10

\* ------------------------------------------------------ accounts and outfits
\* C32: create_user for a uid that has a user document answers 409 'already
\* exists' and leaves the users collection as it was, and create_profile does
\* the same for a user_uid that has a profile
C32_ExistingAccountIsNotOverwritten ==
  [][/\ \A uid \in Users :
          (returned'.op = "create_user" /\ returned'.uid = uid /\ users[uid] # NoDoc)
            => /\ returned'.code = 409
               /\ returned'.detail = "User already exists"
               /\ users' = users
     /\ \A uid \in Users :
          (returned'.op = "create_profile" /\ returned'.uid = uid /\ profiles[uid] # NoDoc)
            => /\ returned'.code = 409
               /\ returned'.detail = "Profile already exists for this user"
               /\ profiles' = profiles]_vars

\* every item the request lists exists and belongs to user_uid
AllOwned(user_uid, clothing_item_ids) ==
  \A i \in 1..Len(clothing_item_ids) :
    /\ items[clothing_item_ids[i]] # NoDoc
    /\ items[clothing_item_ids[i]].user_uid = user_uid

\* C33: create_outfit stores an outfit only if every listed clothing item
\* exists and belongs to the caller; when an item is missing or foreign it
\* answers 400 'not found' or 'Access denied' and stores nothing
C33_OutfitNeedsOwnedItems ==
  [][returned'.op = "create_outfit"
       => LET u == returned'.user_uid
              ids == returned'.clothing_item_ids
          IN /\ outfits' # outfits
                  => /\ AllOwned(u, ids)
                     /\ returned'.code = 200
                     /\ outfits' = Append(outfits, [user_uid |-> u, clothing_item_ids |-> ids])
             /\ ~AllOwned(u, ids)
                  => /\ returned'.code = 400
                     /\ returned'.detail \in {"Clothing item not found", "Access denied to clothing item"}
                     /\ outfits' = outfits]_vars

\* create_outfit has answered 400 to a request whose first item belongs to
\* the caller and whose second item belongs to the other user, and no outfit
\* is stored
C33_Witness ==
  /\ returned.op = "create_outfit"
  /\ returned.code = 400
  /\ returned.detail = "Access denied to clothing item"
  /\ Len(returned.clothing_item_ids) = 2
  /\ items[returned.clothing_item_ids[1]] # NoDoc
  /\ items[returned.clothing_item_ids[1]].user_uid = returned.user_uid
  /\ outfits = << >>

\* ------------------------------------------------- order of external calls
\* the task of session s executes the statement at position p in this step
Executes(s, p) == pc[s] = p /\ pc'[s] # p

\* C34: in every run the image-generation call is made only after at least
\* one clothing item of the outfit was resolved and the gateway was found
\* available, the blob upload only after image bytes were returned, the
\* description call only after the upload returned a URL, and the COMPLETED
\* update only after all three calls, made in this order
C34_ExternalCallsInOrder ==
  [][\A s \in SessionIds :
       /\ Executes(s, "generate")
            => /\ local[s].clothing_items >= 1
               /\ ai_client
               /\ local[s].external_calls = << >>
       /\ Executes(s, "save_image")
            => /\ local[s].generated_image_data # NULL
               /\ local[s].external_calls = <<"generate">>
       /\ Executes(s, "describe")
            => /\ local[s].image_url # NULL
               /\ local[s].external_calls = <<"generate", "upload">>
       /\ (\/ Executes(s, "complete")
           \/ (/\ Exists(s)
               /\ sessions'[s] # NoDoc
               /\ sessions[s].status # COMPLETED
               /\ sessions'[s].status = COMPLETED))
            => /\ local[s].clothing_items >= 1
               /\ local[s].generated_image_data # NULL
               /\ local[s].image_url # NULL
               /\ local[s].description # NULL
               /\ local[s].external_calls = <<"generate", "upload", "describe">>]_vars

\* a run has made the three external calls and stands before its COMPLETED
\* update
C34_Witness ==
  \E s \in SessionIds :
    /\ pc[s] = "complete"
    /\ local[s].external_calls = <<"generate", "upload", "describe">>
    /\ local[s].image_url = "url"

\* ------------------------------------------------ what an attempt records
\* the attempt of caller c returns a result in this step
AttemptReturns(c) == gw[c].pc = "transport" /\ gw'[c].pc = "returned"

\* the attempt of caller c is rejected by a check, or fails, in this step
AttemptFails(c) == gw[c].pc \in {"attempt", "transport"} /\ gw'[c].pc \in {"backoff", "failed"}

\* exactly one entry, stamped now, is appended to both sequences
RecordedOnce ==
  /\ request_timestamps' = Append(request_timestamps, now)
  /\ Len(token_usage') = Len(token_usage) + 1
  /\ SubSeq(token_usage', 1, Len(token_usage)) = token_usage
  /\ token_usage'[Len(token_usage')][1] = now

\* C35 as claimed: an attempt that returns a result records exactly one
\* request, and an attempt that is rejected or fails leaves request_timestamps
\* and token_usage as they were
C35_FailedAttemptLeavesSequences ==
  [][\A c \in Callers :
       /\ AttemptReturns(c) => RecordedOnce
       /\ AttemptFails(c) => UNCHANGED <<request_timestamps, token_usage>>]_vars

\* C35 as amended: an attempt that returns a result records exactly one
\* request, and an attempt that is rejected or fails appends nothing: it
\* leaves both sequences as they were, or (when the rate-limit check ran)
\* without their entries older than 60 seconds
C35_FailedAttemptRecordsNothing ==
  [][\A c \in Callers :
       /\ AttemptReturns(c) => RecordedOnce
       /\ AttemptFails(c)
            => /\ request_timestamps' \in {request_timestamps, WindowTimestamps}
               /\ token_usage' \in {token_usage, WindowUsage}
               /\ gw[c].pc = "transport" => UNCHANGED <<request_timestamps, token_usage>>]_vars

\* an attempt was rejected by the rate limiter while the recorded requests of
\* earlier attempts are still in both sequences
C35_Witness ==
  \E c \in Callers :
    /\ Denied(c)
    /\ Len(request_timestamps) >= RPM
    /\ Len(token_usage) = Len(request_timestamps)

\* ------------------------------------------------------------ cancellation
\* C36: the status of every stored session is PENDING, IN_PROGRESS, COMPLETED
\* or FAILED: nothing sets CANCELLED
C36_NeverCancelled ==
  \A s \in SessionIds :
    Exists(s) => sessions[s].status \in {PENDING, IN_PROGRESS, COMPLETED, FAILED}

\* a run has finished, its session was polled in its final status and is
\* still stored
C36_Witness ==
  \E s \in SessionIds :
    /\ Exists(s)
    /\ pc[s] = "done"
    /\ sessions[s].status \in {COMPLETED, FAILED}
    /\ lastPolled.session_id = s
    /\ lastPolled.status = sessions[s].status
    /\ sessions[s].status # CANCELLED

\* ------------------------------------------------- delete during a run
\* C37: a session that was created and deleted stays deleted: no later step,
\* and no update_session_status call of its still running pipeline, stores a
\* document under its id again, and get_session returns absent for it
C37_DeletedSessionStaysDeleted ==
  [][\A s \in SessionIds :
       (nextId > s /\ ~Exists(s))
         => /\ sessions'[s] = NoDoc
            /\ \A u \in Users, fault \in BOOLEAN : get_session(u, s, fault)' = NoDoc]_vars

\* the owner has polled the session and deleted it while its run was going
\* on; the run has found no session and stands before its FAILED update
C37_Witness ==
  \E s \in SessionIds :
    /\ ~Exists(s)
    /\ lastPolled.session_id = s
    /\ pc[s] = "fail"
    /\ local[s].error_message = "Session not found"

\* ------------------------------------------- update_session_status, results
\* the partial update of the n-th argument list, built now
UpdateOf(n) ==
  LET a == UpdateCall(n, now)
  IN update_data(a.status, a.progress, a.error_message, a.generated_image_url,
                 a.ai_description, a.generation_metadata, now)

\* C38: in every state, whether update_session_status is called with an
\* IN_PROGRESS, a FAILED or a COMPLETED update (calls 1, 3 and 4), it
\* does not raise; when the write fails or the document does not exist it
\* returns false and the collection stays as it is; it returns true only
\* when the partial update was merged into the stored session; and no
\* pipeline was ever left by an exception of it
C38_UpdateNeverRaises ==
  /\ \A s \in SessionIds : pc[s] # "raised"
  /\ \A n \in {1, 3, 4} :
       LET upd == UpdateOf(n)
       IN \A s \in SessionIds, fault \in BOOLEAN :
            LET o == update_outcome(s, fault)
                after == StoreAfterUpdate(s, o, upd)
            IN /\ o \in {"true", "false"}
               /\ (fault \/ ~Exists(s)) => o = "false"
               /\ IF o = "false"
                    THEN after = sessions
                    ELSE /\ Exists(s)
                         /\ after[s] = Merge(sessions[s], upd)
                         /\ \A other \in SessionIds \ {s} : after[other] = sessions[other]

\* the first update of a run has been applied: the session is IN_PROGRESS at
\* progress 10, and a call whose write fails would return false
C38_Witness ==
  \E s \in SessionIds :
    /\ pc[s] = "get_session"
    /\ Exists(s)
    /\ sessions[s].status = IN_PROGRESS
    /\ sessions[s].progress_percentage = 10
    /\ update_outcome(s, FALSE) = "true"
    /\ update_outcome(s, TRUE) = "false"

\* ------------------------------------------------- checks of every attempt
\* caller c issues a transport call in this step
IssuesTransport(c) == gw'[c].transports = gw[c].transports + 1

\* C39: every transport call, of a first attempt and of a retry alike, is
\* issued by an attempt that has just found the gateway available and the
\* rate limiter admitting a request; an attempt the limiter denies issues no
\* transport call
C39_EveryAttemptIsChecked ==
  [][\A c \in Callers :
       /\ IssuesTransport(c)
            => /\ gw[c].pc = "attempt"
               /\ ai_client
               /\ Check(EstimatedTokens).allowed
       /\ (gw[c].pc \in {"attempt", "backoff"} /\ gw'[c].pc # gw[c].pc
             /\ (~ai_client \/ ~Check(EstimatedTokens).allowed))
            => /\ gw'[c].transports = gw[c].transports
               /\ transport_log' = transport_log]_vars

\* a second attempt was denied by the rate limiter after the first attempt
\* had issued its transport call: the retry issued none
C39_Witness ==
  \E c \in Callers :
    /\ gw[c].attempt = 2
    /\ gw[c].error = RateLimitError
    /\ gw[c].transports = 1

\* the two sequences of the rate limiter hold the same timestamps, entry by entry
Aligned(timestamps, usage) ==
  /\ Len(timestamps) = Len(usage)
  /\ \A i \in DOMAIN timestamps : usage[i][1] = timestamps[i]

\* this step is an attempt that ran can_make_request
CheckRan == ai_client /\ \E c \in Callers : gw[c].pc = "attempt" /\ gw'[c].pc # "attempt"

\* C40: after every can_make_request and record_request, request_timestamps
\* and token_usage have the same length and the same timestamps in the same
\* order, and after a can_make_request every entry left in either sequence
\* is younger than 60 seconds
C40_SequencesStayAligned ==
  /\ Aligned(request_timestamps, token_usage)
  /\ [][/\ Aligned(request_timestamps', token_usage')
        /\ CheckRan =>
             /\ \A i \in DOMAIN request_timestamps' : request_timestamps'[i] > now - Window
             /\ \A i \in DOMAIN token_usage' : token_usage'[i][1] > now - Window]_vars

\* an attempt was admitted a full window after the start, while another
\* caller's request of this window stays recorded in both sequences
C40_Witness ==
  /\ now >= Window
  /\ \E c \in Callers : gw[c].pc = "transport"
  /\ Len(request_timestamps) >= 1
  /\ Len(token_usage) >= 1

=============================================================================
